---- MODULE Spec2Model ----
(***************************************************************************)
(* Model of the AI Interview Coach page script (src/app.py): the           *)
(* deployment gate, generate_feedback, analyze_sentiment,                  *)
(* analyze_emotion_from_image and the "Get Feedback" submit branch, run    *)
(* under Streamlit's rerun-the-whole-script execution.                     *)
(***************************************************************************)
EXTENDS Integers, Sequences, FiniteSets, TLC

\* ------------------------------------------------------------------ bounds
\* Longest typed answer (in characters) the model enumerates.
MaxAnswerLen == 2

\* ------------------------------------------------------------ text helpers
\* Characters of typed answers: two whitespace characters and one letter.
AnswerChars == {" ", "\t", "a"}

\* str.isspace() for one character.
IsSpace(c) == c \in {" ", "\t", "\n", "\r"}

RECURSIVE lstrip(_)
lstrip(s) == IF s # <<>> /\ IsSpace(Head(s)) THEN lstrip(Tail(s)) ELSE s

RECURSIVE rstrip(_)
rstrip(s) ==
    IF s # <<>> /\ IsSpace(s[Len(s)]) THEN rstrip(SubSeq(s, 1, Len(s) - 1)) ELSE s

\* str.strip(): leading and trailing whitespace removed.
strip(s) == rstrip(lstrip(s))

\* Python truthiness of a str.
StrTruthy(s) == s # <<>>

SeqsUpTo(S, n) == UNION {[1..m -> S] : m \in 0..n}

Answers == SeqsUpTo(AnswerChars, MaxAnswerLen)

\* The five options of the category selectbox.
Categories ==
    {"HR (Human Resources)", "Technical (Software Engineering)",
     "Behavioral (STAR Method)", "Product Management", "Data Science"}

DefaultCategory == "HR (Human Resources)"

\* ------------------------------------------------ Python values and JSON
\* A decoded JSON document (and a Python value) is a tagged record.
JNull == [k |-> "null"]
JStr(s) == [k |-> "str", s |-> s]
JNum(n) == [k |-> "num", n |-> n]
JList(items) == [k |-> "list", items |-> items]
JObj(fields) == [k |-> "obj", fields |-> fields]

NoFields == [key \in {} |-> JNull]

\* bool(v): None, "", 0, [] and {} are falsy.
Truthy(v) ==
    CASE v.k = "null" -> FALSE
      [] v.k = "str" -> v.s # ""
      [] v.k = "num" -> v.n # 0
      [] v.k = "list" -> v.items # <<>>
      [] v.k = "obj" -> DOMAIN v.fields # {}

\* dict.get(key): the value, or None when the key is absent.
PyGet(v, key) == IF key \in DOMAIN v.fields THEN v.fields[key] ELSE JNull

\* Whether len(v) is defined (it raises TypeError otherwise).
HasLen(v) == v.k \in {"str", "list", "obj"}

\* len(v) > 0, for a v that has a len.
LenPositive(v) ==
    CASE v.k = "str" -> v.s # ""
      [] v.k = "list" -> Len(v.items) > 0
      [] v.k = "obj" -> Cardinality(DOMAIN v.fields) > 0

Returned(v) == [exc |-> "none", val |-> v]
Raised(cls) == [exc |-> cls, val |-> JNull]

\* v[0]: the first item of a list, the first character of a str (here every
\* str subscripted is at most one character long), KeyError on a dict (JSON
\* keys are strings), TypeError on None and numbers.
SubscriptZero(v) ==
    CASE v.k = "list" ->
            IF v.items = <<>> THEN Raised("IndexError") ELSE Returned(v.items[1])
      [] v.k = "str" -> IF v.s = "" THEN Raised("IndexError") ELSE Returned(v)
      [] v.k = "obj" -> Raised("KeyError")
      [] OTHER -> Raised("TypeError")

\* v[key] for a string key: KeyError when a dict lacks it, TypeError on
\* anything that is not a dict.
SubscriptKey(v, key) ==
    CASE v.k = "obj" ->
            IF key \in DOMAIN v.fields THEN Returned(v.fields[key])
            ELSE Raised("KeyError")
      [] OTHER -> Raised("TypeError")

\* The classes an exception is an instance of (its class and its bases), for
\* the exceptions the try block of generate_feedback can see.
Bases(cls) ==
    CASE cls = "requests.ConnectionError" ->
            {cls, "requests.RequestException", "OSError", "Exception"}
      [] cls = "requests.Timeout" ->
            {cls, "requests.RequestException", "OSError", "Exception"}
      [] cls = "requests.HTTPError" ->
            {cls, "requests.RequestException", "OSError", "Exception"}
      [] cls = "requests.JSONDecodeError" ->
            {cls, "requests.InvalidJSONError", "requests.RequestException",
             "OSError", "json.JSONDecodeError", "ValueError", "Exception"}
      [] cls = "json.JSONDecodeError" -> {cls, "ValueError", "Exception"}
      [] cls = "simplejson.JSONDecodeError" -> {cls, "ValueError", "Exception"}
      [] cls = "KeyError" -> {cls, "LookupError", "Exception"}
      [] cls = "IndexError" -> {cls, "LookupError", "Exception"}
      [] cls = "TypeError" -> {cls, "Exception"}
      [] cls = "AttributeError" -> {cls, "Exception"}
      [] OTHER -> {cls, "Exception"}

IsInstance(cls, base) == base \in Bases(cls)

\* What response.json() raises on a body that is not JSON: requests 2.27 and
\* later raise requests.JSONDecodeError, earlier versions raise the json
\* module's error or, with simplejson installed, simplejson's.
JsonErrorClasses ==
    {"requests.JSONDecodeError", "json.JSONDecodeError", "simplejson.JSONDecodeError"}

\* --------------------------------------------------- generate_feedback
MsgBlank == "Please provide an answer to receive feedback."
MsgSchema == "An error occurred while parsing Gemini feedback. Please try again."
MsgNetwork ==
    "An error occurred while connecting to Gemini API. Please check your network or API key."
MsgParse == "An error occurred while processing Gemini feedback. Please try again."
MsgUnexpected == "An unexpected error occurred. Please try again."

\* The request generate_feedback posts: the prompt embeds the category and
\* the answer verbatim, with the fixed generation configuration.
BuildRequest(category, answer) ==
    [method |-> "POST",
     url |-> "generativelanguage.googleapis.com/v1beta/models/gemini-2.0-flash:generateContent",
     prompt |-> [category |-> category, answer |-> answer],
     maxOutputTokens |-> 800]

\* response.raise_for_status(): HTTPError for 4xx and 5xx, nothing otherwise.
RaiseForStatus(status) ==
    IF status >= 400 /\ status < 600 THEN Raised("requests.HTTPError")
    ELSE Returned(JNull)

\* response.json(): the decoded body, or the library's decode error.
ResponseJson(body) ==
    IF body.parses THEN Returned(body.value) ELSE Raised(body.err)

SchemaElse == [exc |-> "none", branch |-> "else", val |-> JNull]
ExtractRaise(cls) == [exc |-> cls, branch |-> "raise", val |-> JNull]
ExtractText(v) == [exc |-> "none", branch |-> "feedback", val |-> v]

\* Lines 93-100: the short-circuit chain of presence checks on
\* candidates[0].content.parts, then parts[0]["text"]; each attribute access,
\* len() and subscript raises what Python raises on the value it meets.
ExtractFeedback(result) ==
    IF result.k # "obj" THEN ExtractRaise("AttributeError")
    ELSE LET cands == PyGet(result, "candidates") IN
    IF ~Truthy(cands) THEN SchemaElse
    ELSE IF ~HasLen(cands) THEN ExtractRaise("TypeError")
    ELSE IF ~LenPositive(cands) THEN SchemaElse
    ELSE LET c0 == SubscriptZero(cands) IN
    IF c0.exc # "none" THEN ExtractRaise(c0.exc)
    ELSE IF c0.val.k # "obj" THEN ExtractRaise("AttributeError")
    ELSE LET content == PyGet(c0.val, "content") IN
    IF ~Truthy(content) THEN SchemaElse
    ELSE IF content.k # "obj" THEN ExtractRaise("AttributeError")
    ELSE LET parts == PyGet(content, "parts") IN
    IF ~Truthy(parts) THEN SchemaElse
    ELSE IF ~HasLen(parts) THEN ExtractRaise("TypeError")
    ELSE IF ~LenPositive(parts) THEN SchemaElse
    ELSE LET p0 == SubscriptZero(parts) IN
    IF p0.exc # "none" THEN ExtractRaise(p0.exc)
    ELSE LET text == SubscriptKey(p0.val, "text") IN
    IF text.exc # "none" THEN ExtractRaise(text.exc)
    ELSE ExtractText(text.val)

\* Lines 87-91 and 93-100: the body of the try block. remote is the outcome
\* of the HTTP exchange.
TryBlock(remote) ==
    IF remote.transport # "ok" THEN ExtractRaise(remote.transport)
    ELSE LET st == RaiseForStatus(remote.status) IN
    IF st.exc # "none" THEN ExtractRaise(st.exc)
    ELSE LET js == ResponseJson(remote.body) IN
    IF js.exc # "none" THEN ExtractRaise(js.exc)
    ELSE ExtractFeedback(js.val)

Result(ret, raised, shown, posts) ==
    [ret |-> ret, raised |-> raised, shown |-> shown, posts |-> posts]

\* Faulty variant of the except clauses: the catch-all clause comes first, so
\* the clause for request errors is never reached.
ExceptClauses_catch_all_first(cls, posts) ==
    IF IsInstance(cls, "Exception")
    THEN Result(JStr(MsgUnexpected), "none", "An unexpected error occurred", posts)
    ELSE IF IsInstance(cls, "requests.RequestException")
    THEN Result(JStr(MsgNetwork), "none", "Gemini API Request Error", posts)
    ELSE Result(JNull, cls, "none", posts)

\* Lines 102-110: the except clauses, tried in order.
ExceptClauses(cls, posts) ==
    IF IsInstance(cls, "requests.RequestException")
    THEN Result(JStr(MsgNetwork), "none", "Gemini API Request Error", posts)
    ELSE IF IsInstance(cls, "json.JSONDecodeError")
    THEN Result(JStr(MsgParse), "none", "Failed to decode JSON response", posts)
    ELSE IF IsInstance(cls, "Exception")
    THEN Result(JStr(MsgUnexpected), "none", "An unexpected error occurred", posts)
    ELSE Result(JNull, cls, "none", posts)

\* Faulty variant of generate_feedback: the blank check tests the answer
\* without stripping it.
generate_feedback_no_strip(category, answer, remote) ==
    IF ~StrTruthy(answer)
    THEN Result(JStr(MsgBlank), "none", "none", <<>>)
    ELSE LET posts == <<BuildRequest(category, answer)>>
             t == TryBlock(remote) IN
         CASE t.branch = "feedback" -> Result(t.val, "none", "none", posts)
           [] t.branch = "else" ->
                Result(JStr(MsgSchema), "none", "Gemini API response structure unexpected", posts)
           [] t.branch = "raise" -> ExceptClauses(t.exc, posts)

\* Faulty variant of generate_feedback: a request that raised is sent a
\* second time before the failure is reported.
generate_feedback_retry(category, answer, remote) ==
    IF ~StrTruthy(strip(answer))
    THEN Result(JStr(MsgBlank), "none", "none", <<>>)
    ELSE LET posts == <<BuildRequest(category, answer)>>
             t == TryBlock(remote) IN
         CASE t.branch = "feedback" -> Result(t.val, "none", "none", posts)
           [] t.branch = "else" ->
                Result(JStr(MsgSchema), "none", "Gemini API response structure unexpected", posts)
           [] t.branch = "raise" -> ExceptClauses(t.exc, posts \o posts)

\* generate_feedback(category, answer), given the outcome of the remote
\* exchange: the value returned, the exception raised past the function (or
\* "none"), the st.error shown, and the HTTP requests issued.
generate_feedback(category, answer, remote) ==
    IF ~StrTruthy(strip(answer))
    THEN Result(JStr(MsgBlank), "none", "none", <<>>)
    ELSE LET posts == <<BuildRequest(category, answer)>>
             t == TryBlock(remote) IN
         CASE t.branch = "feedback" -> Result(t.val, "none", "none", posts)
           [] t.branch = "else" ->
                Result(JStr(MsgSchema), "none", "Gemini API response structure unexpected", posts)
           [] t.branch = "raise" -> ExceptClauses(t.exc, posts)

\* --------------------------------------------------- analyze_sentiment
\* Scores are kept in hundredths: 100 stands for 1.0.
SentimentOf(polarity, subjectivity, invoked) ==
    [polarity |-> polarity, subjectivity |-> subjectivity, textblob |-> invoked]

\* Faulty variant of analyze_sentiment: the two scores are exchanged and the
\* blank check tests the text without stripping it.
analyze_sentiment_swapped(text, blob) ==
    IF ~StrTruthy(text) THEN SentimentOf(0, 0, FALSE)
    ELSE SentimentOf(blob.subjectivity, blob.polarity, TRUE)

\* analyze_sentiment(text), given what TextBlob(text).sentiment reports.
analyze_sentiment(text, blob) ==
    IF ~StrTruthy(strip(text)) THEN SentimentOf(0, 0, FALSE)
    ELSE SentimentOf(blob.polarity, blob.subjectivity, TRUE)

\* ------------------------------------------ analyze_emotion_from_image
NoImage == [k |-> "null"]
Buffer(bytes) == [k |-> "bytes", bytes |-> bytes]

MsgNoImage == "No image provided."
MsgNoDecode == "Could not decode image. Please try another picture."
MsgNoFace == "No face detected in the image."
MsgEmotionError == "An error occurred during emotion analysis"

EmotionResult(dominant, data, raised, deepface, shown) ==
    [dominant |-> dominant, data |-> data, raised |-> raised,
     deepface |-> deepface, shown |-> shown]

\* Line 158-160: except Exception.
EmotionExcept(cls, deepface) ==
    IF IsInstance(cls, "Exception")
    THEN EmotionResult(JNull, JStr(MsgEmotionError), "none", deepface,
                       "Error analyzing image for emotions")
    ELSE EmotionResult(JNull, JNull, cls, deepface, "none")

\* Lines 151-156: the first analysed region, or the no-face message.
FirstRegion(demographies) ==
    IF ~Truthy(demographies)
    THEN EmotionResult(JNull, JStr(MsgNoFace), "none", TRUE, "none")
    ELSE LET d0 == SubscriptZero(demographies) IN
    IF d0.exc # "none" THEN EmotionExcept(d0.exc, TRUE)
    ELSE LET dom == SubscriptKey(d0.val, "dominant_emotion") IN
    IF dom.exc # "none" THEN EmotionExcept(dom.exc, TRUE)
    ELSE LET scores == SubscriptKey(d0.val, "emotion") IN
    IF scores.exc # "none" THEN EmotionExcept(scores.exc, TRUE)
    ELSE EmotionResult(dom.val, scores.val, "none", TRUE, "none")

\* Faulty variant of analyze_emotion_from_image: the result of imdecode is
\* not tested, so an undecodable buffer goes on to DeepFace.
analyze_emotion_no_decode_check(image_bytes, codec, deepface) ==
    IF image_bytes.k = "null"
    THEN EmotionResult(JNull, JStr(MsgNoImage), "none", FALSE, "none")
    ELSE IF codec.exc # "none" THEN EmotionExcept(codec.exc, FALSE)
    ELSE IF deepface.exc # "none" THEN EmotionExcept(deepface.exc, TRUE)
    ELSE FirstRegion(deepface.val)

\* analyze_emotion_from_image(image_bytes), given what cv2.imdecode does with
\* the buffer (codec) and what DeepFace.analyze does with the image.
analyze_emotion_from_image(image_bytes, codec, deepface) ==
    IF image_bytes.k = "null"
    THEN EmotionResult(JNull, JStr(MsgNoImage), "none", FALSE, "none")
    ELSE IF codec.exc # "none" THEN EmotionExcept(codec.exc, FALSE)
    ELSE IF ~codec.image
    THEN EmotionResult(JNull, JStr(MsgNoDecode), "none", FALSE, "none")
    ELSE IF deepface.exc # "none" THEN EmotionExcept(deepface.exc, TRUE)
    ELSE FirstRegion(deepface.val)

\* --------------------------------------------------------- input domains
\* Values met along candidates[0].content.parts[0].text, level by level:
\* present, absent, empty, None, and values of the wrong type.
TextValues == {JStr("Great answer"), JStr(""), JNull}

PartValues ==
    {JObj(NoFields), JObj("inlineData" :> JStr("x")), JStr("x"), JNull}
    \cup {JObj("text" :> t) : t \in TextValues}

PartsValues ==
    {JNull, JList(<<>>), JNum(1), JStr("x"), JObj("k" :> JNull)}
    \cup {JList(<<p>>) : p \in PartValues}
    \cup {JList(<<JObj("text" :> JStr("first")), JObj("text" :> JStr("second"))>>)}

ContentValues ==
    {JNull, JObj(NoFields), JObj("role" :> JStr("model")), JStr("x"), JList(<<JNull>>)}
    \cup {JObj("parts" :> p) : p \in PartsValues}

CandidateValues ==
    {JNull, JStr("x"), JObj(NoFields), JObj("finishReason" :> JStr("SAFETY"))}
    \cup {JObj("content" :> c) : c \in ContentValues}

CandidatesValues ==
    {JNull, JList(<<>>), JNum(1), JStr("x"), JObj("k" :> JNull)}
    \cup {JList(<<c>>) : c \in CandidateValues}
    \cup {JList(<<JObj(NoFields), JObj("content" :> JObj("parts" :>
              JList(<<JObj("text" :> JStr("second"))>>)))>>)}

Payloads ==
    {JNull, JList(<<>>), JStr("x"), JObj(NoFields),
     JObj("promptFeedback" :> JStr("BLOCKED"))}
    \cup {JObj("candidates" :> c) : c \in CandidatesValues}

JsonBody(v) == [parses |-> TRUE, value |-> v, err |-> "none"]
BadBody(cls) == [parses |-> FALSE, value |-> JNull, err |-> cls]

Transport(cls) == [transport |-> cls, status |-> 0, body |-> BadBody("none")]
Response(status, body) == [transport |-> "ok", status |-> status, body |-> body]

\* Outcomes of requests.post: no response at all, an error status, a 2xx or
\* 3xx response with a JSON body or with a body that is not JSON.
RemoteOutcomes ==
    {Transport("requests.ConnectionError"), Transport("requests.Timeout")}
    \cup {Response(st, b) : st \in {400, 403, 429, 500, 503},
                            b \in {JsonBody(JObj("error" :> JStr("x"))),
                                   BadBody("requests.JSONDecodeError")}}
    \cup {Response(st, JsonBody(v)) : st \in {200}, v \in Payloads}
    \cup {Response(st, BadBody(cls)) : st \in {200, 304}, cls \in JsonErrorClasses}

SentimentOutputs ==
    {[polarity |-> p, subjectivity |-> q] : p \in {-50, 0, 80}, q \in {0, 60}}

ImageBuffers == {Buffer(<<>>), Buffer(<<0>>), Buffer(<<255, 216>>)}

\* What the camera widget delivers: a non-empty encoded picture.
Snapshots == {b \in ImageBuffers : b.bytes # <<>>}

Decoded == [exc |-> "none", image |-> TRUE]
NotDecoded == [exc |-> "none", image |-> FALSE]
CodecRaises == [exc |-> "cv2.error", image |-> FALSE]

\* cv2.imdecode: an image, None, or cv2.error; an empty buffer is never an
\* image.
CodecOutcomes(image_bytes) ==
    IF image_bytes.k = "null" THEN {NotDecoded}
    ELSE {NotDecoded, CodecRaises}
         \cup (IF image_bytes.bytes # <<>> THEN {Decoded} ELSE {})

Region(label) ==
    JObj(("dominant_emotion" :> JStr(label))
         @@ ("emotion" :> JObj(("happy" :> JNum(90)) @@ ("sad" :> JNum(10)))))

\* DeepFace.analyze: raises, or returns a list of regions (older versions: a
\* single dict), possibly empty or lacking a key.
DeepFaceOutcomes ==
    {Raised("ValueError"), Returned(JList(<<>>)),
     Returned(JList(<<Region("happy")>>)), Returned(JList(<<Region("sad")>>)),
     Returned(JList(<<Region("happy"), Region("neutral")>>)),
     Returned(Region("happy")),
     Returned(JList(<<JObj("dominant_emotion" :> JStr("happy"))>>))}

\* ------------------------------------------------------ deployment gate
Unset == [set |-> FALSE, val |-> <<>>]
SetTo(v) == [set |-> TRUE, val |-> v]

\* Values of AI_INTERVIEW_COACH_AUTHORIZED_DEPLOYMENT the model starts from.
EnvValues ==
    {Unset, SetTo(<<>>), SetTo(<<"T", "R", "U", "E">>), SetTo(<<"t", "r", "u", "e">>),
     SetTo(<<"T", "r", "u", "e">>), SetTo(<<"t", "R", "u", "E">>),
     SetTo(<<"F", "A", "L", "S", "E">>), SetTo(<<"f", "a", "l", "s", "e">>),
     SetTo(<<"1">>), SetTo(<<"y", "e", "s">>), SetTo(<<"T", "R", "U">>),
     SetTo(<<" ", "T", "R", "U", "E">>), SetTo(<<"T", "R", "U", "E", " ">>)}

\* os.getenv(name, default).
getenv(env, default) == IF env.set THEN env.val ELSE default

\* str.upper() for one character.
UpperChar(c) ==
    CASE c = "t" -> "T" [] c = "r" -> "R" [] c = "u" -> "U" [] c = "e" -> "E"
      [] c = "f" -> "F" [] c = "a" -> "A" [] c = "l" -> "L" [] c = "s" -> "S"
      [] c = "y" -> "Y" [] OTHER -> c

upper(s) == [i \in DOMAIN s |-> UpperChar(s[i])]

\* Line 17.
AUTHORIZED_DEPLOYMENT_FLAG(env) == upper(getenv(env, <<"F", "A", "L", "S", "E">>))

\* Faulty variant of the gate: the value is compared without upper().
Authorized_exact_case(env) ==
    getenv(env, <<"F", "A", "L", "S", "E">>) = <<"T", "R", "U", "E">>

\* Line 19, negated: the script goes past the warning.
Authorized(env) == AUTHORIZED_DEPLOYMENT_FLAG(env) = <<"T", "R", "U", "E">>

\* ------------------------------------------------------------ page script
VARIABLES
    env,          \* AI_INTERVIEW_COACH_AUTHORIZED_DEPLOYMENT in the process environment
    pc,           \* where the current script run is: gate, submit, sentiment,
                  \* camera, finish; idle between runs; stopped after st.stop()
    trigger,      \* what started the current (or last) run
    category,     \* value of the category selectbox
    user_answer,  \* value of the answer text area
    clicked,      \* st.button("Get Feedback") reads True in this run
    camera,       \* value held for the camera widget (NoImage: none)
    mounted,      \* the camera widget is on the page, left there by the last run
    page,         \* what the current run has rendered so far
    posts,        \* HTTP requests issued by the current run
    pending,      \* a snapshot was supplied and has not been analysed
    call          \* function-level harness: the last call and its result

vars ==
    <<env, pc, trigger, category, user_answer, clicked, camera, mounted, page,
      posts, pending, call>>

appVars ==
    <<env, pc, trigger, category, user_answer, clicked, camera, mounted, page,
      posts, pending>>

NoValue == [k |-> "absent"]
NoCall == [fn |-> "none"]

EmptyPage ==
    [gate |-> FALSE, blank |-> FALSE, feedback |-> NoValue, error |-> "none",
     sentiment |-> NoValue, camera |-> FALSE, emotion |-> NoValue,
     crashed |-> "none"]

\* The state when the page is first loaded: the script is about to run.
Init ==
    /\ env \in EnvValues
    /\ pc = "gate"
    /\ trigger = "load"
    /\ category = DefaultCategory
    /\ user_answer = <<>>
    /\ clicked = FALSE
    /\ camera = NoImage
    /\ mounted = FALSE
    /\ page = EmptyPage
    /\ posts = <<>>
    /\ pending = FALSE
    /\ call = NoCall

\* Lines 17-30: the authorization check; st.stop() ends the run and leaves
\* a page with no widgets.
Gate ==
    /\ pc = "gate"
    /\ IF Authorized(env)
       THEN /\ pc' = "submit"
            /\ UNCHANGED <<page, mounted, camera, clicked>>
       ELSE /\ pc' = "stopped"
            /\ page' = [page EXCEPT !.gate = TRUE]
            /\ mounted' = FALSE
            /\ camera' = NoImage
            /\ clicked' = FALSE
    /\ UNCHANGED <<env, trigger, category, user_answer, posts, pending,
                   call>>

\* Lines 195-201: the blank check of the submit branch and the feedback call.
SubmitBranch(cat, answer, remote) ==
    IF ~StrTruthy(strip(answer))
    THEN [warning |-> TRUE, fb |-> Result(JNull, "none", "none", <<>>)]
    ELSE [warning |-> FALSE, fb |-> generate_feedback(cat, answer, remote)]

\* Lines 164-201: the widgets are read; when the button reads True the
\* blank warning or the feedback report is rendered.
Submit ==
    /\ pc = "submit"
    /\ IF ~clicked
       THEN /\ pc' = "finish"
            /\ UNCHANGED <<page, posts>>
       ELSE \E remote \in RemoteOutcomes :
            LET b == SubmitBranch(category, user_answer, remote) IN
            IF b.warning
            THEN /\ page' = [page EXCEPT !.blank = TRUE]
                 /\ pc' = "finish"
                 /\ UNCHANGED posts
            ELSE /\ posts' = posts \o b.fb.posts
                 /\ IF b.fb.raised # "none"
                    THEN /\ page' = [page EXCEPT !.crashed = b.fb.raised]
                         /\ pc' = "finish"
                    ELSE /\ page' = [page EXCEPT !.feedback = b.fb.ret,
                                                 !.error = b.fb.shown]
                         /\ pc' = "sentiment"
    /\ UNCHANGED <<env, trigger, category, user_answer, clicked, camera,
                   mounted, pending, call>>

\* Lines 203-228: sentiment readouts and chart for the same answer.
Sentiment ==
    /\ pc = "sentiment"
    /\ \E blob \in SentimentOutputs :
         LET sr == analyze_sentiment(user_answer, blob) IN
         page' = [page EXCEPT !.sentiment = sr]
    /\ pc' = "camera"
    /\ UNCHANGED <<env, trigger, category, user_answer, clicked, camera,
                   mounted, posts, pending, call>>

\* Lines 230-249: the camera widget is rendered; a snapshot it holds is
\* analysed and the result rendered.
Camera ==
    /\ pc = "camera"
    /\ IF camera.k # "null"
       THEN \E codec \in CodecOutcomes(camera), deepface \in DeepFaceOutcomes :
            LET er == analyze_emotion_from_image(camera, codec, deepface) IN
            /\ page' = [page EXCEPT !.camera = TRUE, !.emotion = er,
                                    !.crashed = er.raised]
            /\ pending' = FALSE
       ELSE /\ page' = [page EXCEPT !.camera = TRUE]
            /\ UNCHANGED pending
    /\ pc' = "finish"
    /\ UNCHANGED <<env, trigger, category, user_answer, clicked, camera,
                   mounted, posts, call>>

\* Lines 251-275 and the end of the run: the sidebar is rendered, the button
\* goes back to False, and the value of a widget the run did not render is
\* dropped.
Finish ==
    /\ pc = "finish"
    /\ pc' = "idle"
    /\ clicked' = FALSE
    /\ mounted' = page.camera
    /\ camera' = IF page.camera THEN camera ELSE NoImage
    /\ UNCHANGED <<env, trigger, category, user_answer, page, posts,
                   pending, call>>

\* A widget interaction starts a new run of the whole script.
Rerun(why) ==
    /\ pc = "idle"
    /\ pc' = "gate"
    /\ trigger' = why
    /\ page' = EmptyPage
    /\ posts' = <<>>
    /\ UNCHANGED <<env, mounted, call>>

TypeAnswer ==
    \E a \in Answers :
        /\ a # user_answer
        /\ Rerun("answer")
        /\ user_answer' = a
        /\ UNCHANGED <<category, clicked, camera, pending>>

SelectCategory ==
    \E c \in Categories :
        /\ c # category
        /\ Rerun("category")
        /\ category' = c
        /\ UNCHANGED <<user_answer, clicked, camera, pending>>

ClickGetFeedback ==
    /\ Rerun("click")
    /\ clicked' = TRUE
    /\ UNCHANGED <<category, user_answer, camera, pending>>

\* The user takes a picture with the camera widget of the page.
CaptureSnapshot ==
    \E img \in Snapshots :
        /\ mounted
        /\ Rerun("camera")
        /\ camera' = img
        /\ pending' = TRUE
        /\ UNCHANGED <<category, user_answer, clicked>>

Script == Gate \/ Submit \/ Sentiment \/ Camera \/ Finish

Next ==
    \/ Gate
    \/ Submit
    \/ Sentiment
    \/ Camera
    \/ Finish
    \/ TypeAnswer
    \/ SelectCategory
    \/ ClickGetFeedback
    \/ CaptureSnapshot

Spec == Init /\ [][Next]_vars

\* A started script run goes on to its end, and the user keeps asking for
\* feedback.
FairSpec == Spec /\ WF_vars(Script) /\ SF_vars(ClickGetFeedback)

\* ------------------------------------------------- function-level harness
\* Each function applied once to an input of its domain; the functions keep
\* no state between calls.
FnInit ==
    /\ env = Unset
    /\ pc = "gate"
    /\ trigger = "load"
    /\ category = DefaultCategory
    /\ user_answer = <<>>
    /\ clicked = FALSE
    /\ camera = NoImage
    /\ mounted = FALSE
    /\ page = EmptyPage
    /\ posts = <<>>
    /\ pending = FALSE
    /\ call = NoCall

CallGenerateFeedback ==
    \E c \in Categories, a \in Answers, remote \in RemoteOutcomes :
        /\ call = NoCall
        /\ call' = [fn |-> "generate_feedback", category |-> c, answer |-> a,
                    remote |-> remote, out |-> generate_feedback(c, a, remote)]
        /\ UNCHANGED appVars

CallSubmitBranch ==
    \E c \in Categories, a \in Answers, remote \in RemoteOutcomes :
        /\ call = NoCall
        /\ call' = [fn |-> "submit", category |-> c, answer |-> a,
                    remote |-> remote, out |-> SubmitBranch(c, a, remote)]
        /\ UNCHANGED appVars

CallAnalyzeSentiment ==
    \E t \in Answers, blob \in SentimentOutputs :
        /\ call = NoCall
        /\ call' = [fn |-> "analyze_sentiment", text |-> t, blob |-> blob,
                    out |-> analyze_sentiment(t, blob)]
        /\ UNCHANGED appVars

CallAnalyzeEmotion ==
    \E img \in ImageBuffers \cup {NoImage}, deepface \in DeepFaceOutcomes :
      \E codec \in CodecOutcomes(img) :
        /\ call = NoCall
        /\ call' = [fn |-> "analyze_emotion_from_image", image |-> img,
                    codec |-> codec, deepface |-> deepface,
                    out |-> analyze_emotion_from_image(img, codec, deepface)]
        /\ UNCHANGED appVars

FnNext ==
    \/ CallGenerateFeedback
    \/ CallSubmitBranch
    \/ CallAnalyzeSentiment
    \/ CallAnalyzeEmotion

FnSpec == FnInit /\ [][FnNext]_vars

\* ---------------------------------------------------------------- claims
\* A text that is empty or made of whitespace only.
IsBlank(text) == \A i \in DOMAIN text : text[i] \in {" ", "\t", "\n", "\r"}

FeedbackCall == call.fn = "generate_feedback"

\* The exchange failed at transport level: no response, or a 4xx/5xx status.
TransportFailure(remote) ==
    remote.transport # "ok" \/ remote.status \in 400..599

\* A 2xx response whose body is well-formed JSON.
Parseable2xx(remote) ==
    remote.transport = "ok" /\ remote.status \in 200..299 /\ remote.body.parses

\* A 2xx response whose body is not JSON.
Unparseable2xx(remote) ==
    remote.transport = "ok" /\ remote.status \in 200..299 /\ ~remote.body.parses

IsObj(v) == v.k = "obj"
Has(v, key) == IsObj(v) /\ key \in DOMAIN v.fields
NonEmptyList(v) == v.k = "list" /\ v.items # <<>>

\* The whole path candidates[0].content.parts[0].text is there.
PathPresent(v) ==
    /\ Has(v, "candidates") /\ NonEmptyList(v.fields["candidates"])
    /\ Has(v.fields["candidates"].items[1], "content")
    /\ Has(v.fields["candidates"].items[1].fields["content"], "parts")
    /\ NonEmptyList(v.fields["candidates"].items[1].fields["content"].fields["parts"])
    /\ Has(v.fields["candidates"].items[1].fields["content"].fields["parts"].items[1],
           "text")

PathText(v) ==
    v.fields["candidates"].items[1].fields["content"].fields["parts"].items[1].fields["text"]

\* The first part of the first candidate is there and has no text field.
FirstPartWithoutText(v) ==
    /\ Has(v, "candidates") /\ NonEmptyList(v.fields["candidates"])
    /\ Has(v.fields["candidates"].items[1], "content")
    /\ Has(v.fields["candidates"].items[1].fields["content"], "parts")
    /\ NonEmptyList(v.fields["candidates"].items[1].fields["content"].fields["parts"])
    /\ LET p0 == v.fields["candidates"].items[1].fields["content"].fields["parts"].items[1]
       IN IsObj(p0) /\ "text" \notin DOMAIN p0.fields

\* A segment of the path short of the text field is missing or empty: no
\* candidates field, an empty candidates list, no content, no parts, an empty
\* parts list.
SegmentBeforeTextMissing(v) ==
    /\ IsObj(v)
    /\ \/ ~Has(v, "candidates")
       \/ v.fields["candidates"] = JList(<<>>)
       \/ /\ NonEmptyList(v.fields["candidates"])
          /\ IsObj(v.fields["candidates"].items[1])
          /\ LET c0 == v.fields["candidates"].items[1] IN
             \/ ~Has(c0, "content")
             \/ /\ IsObj(c0.fields["content"])
                /\ \/ ~Has(c0.fields["content"], "parts")
                   \/ c0.fields["content"].fields["parts"] = JList(<<>>)

\* C1: for every blank or whitespace-only answer and every category,
\* generate_feedback returns the fixed "Please provide an answer" message and
\* issues no HTTP request, and the submit branch issues no HTTP request either.
C1_BlankAnswerNoRequest ==
    /\ (FeedbackCall /\ IsBlank(call.answer)) =>
          /\ call.out.ret = JStr(MsgBlank)
          /\ call.out.posts = <<>>
          /\ call.out.raised = "none"
    /\ (call.fn = "submit" /\ IsBlank(call.answer)) => call.out.fb.posts = <<>>

C1_Witness ==
    /\ FeedbackCall
    /\ call.answer = <<" ", "\t">>
    /\ call.category = "Data Science"
    /\ call.out.ret = JStr(MsgBlank)

\* C2: for every non-blank answer a transport-level failure (no response, or
\* a status raise_for_status turns into an error) makes generate_feedback
\* return the NetworkError message, and under no outcome of the remote call
\* does an exception leave generate_feedback.
C2_TransportFailureReturned ==
    FeedbackCall =>
        /\ call.out.raised = "none"
        /\ (~IsBlank(call.answer) /\ TransportFailure(call.remote)) =>
              call.out.ret = JStr(MsgNetwork)

C2_Witness ==
    /\ FeedbackCall
    /\ ~IsBlank(call.answer)
    /\ call.remote.transport = "ok"
    /\ call.remote.status = 503
    /\ call.out.ret = JStr(MsgNetwork)

\* C3: for every well-formed 2xx response in which a segment of
\* candidates[0].content.parts[0].text is missing or empty (the text field of
\* the first part included) generate_feedback returns the SchemaError message,
\* and when the whole path is there it returns that text unchanged.
C3_MissingSegmentIsSchemaError ==
    (FeedbackCall /\ ~IsBlank(call.answer) /\ Parseable2xx(call.remote)) =>
        LET v == call.remote.body.value IN
        /\ (SegmentBeforeTextMissing(v) \/ FirstPartWithoutText(v)) =>
              call.out.ret = JStr(MsgSchema)
        /\ PathPresent(v) => call.out.ret = PathText(v)

\* C4: for every 2xx response whose body is not JSON generate_feedback returns
\* the ParseError message, never the NetworkError message.
C4_BadBodyIsParseError ==
    (FeedbackCall /\ ~IsBlank(call.answer) /\ Unparseable2xx(call.remote)) =>
        /\ call.out.ret = JStr(MsgParse)
        /\ call.out.ret # JStr(MsgNetwork)

\* The current run is a submission of a non-blank answer and is past the
\* feedback call.
SubmittedNonBlank ==
    /\ trigger = "click"
    /\ ~IsBlank(user_answer)
    /\ pc \in {"sentiment", "camera", "finish", "idle"}

\* C5: one submission of a non-blank answer issues exactly one HTTP POST, for
\* that answer, and ends with exactly one result; no run issues a second
\* request, and a run that is no such submission issues none.
C5_OneRequestOneResult ==
    /\ Len(posts) <= 1
    /\ SubmittedNonBlank =>
          /\ Len(posts) = 1
          /\ posts[1].method = "POST"
          /\ posts[1].prompt = [category |-> category, answer |-> user_answer]
          /\ page.feedback # NoValue
          /\ page.crashed = "none"
    /\ (trigger # "click" \/ IsBlank(user_answer)) => posts = <<>>

C5_Witness ==
    /\ SubmittedNonBlank
    /\ pc = "idle"
    /\ page.feedback = JStr(MsgNetwork)
    /\ Len(posts) = 1

\* The variable is set to exactly TRUE.
ExactlyTRUE(e) == e = SetTo(<<"T", "R", "U", "E">>)

\* The variable is set to TRUE in any mix of upper and lower case.
AnyCaseTRUE(e) ==
    /\ e.set
    /\ Len(e.val) = 4
    /\ e.val[1] \in {"T", "t"} /\ e.val[2] \in {"R", "r"}
    /\ e.val[3] \in {"U", "u"} /\ e.val[4] \in {"E", "e"}

PastGate == pc \notin {"gate", "stopped"}

NothingAnalysed ==
    /\ posts = <<>>
    /\ page.feedback = NoValue
    /\ page.sentiment = NoValue
    /\ page.emotion = NoValue

\* C6 as stated: the script goes past the warning if and only if the variable
\* equals the exact literal TRUE; for any other value, a different letter
\* case included, it shows the warning and stops and nothing is analysed.
C6_ExactLiteralGate ==
    /\ PastGate => ExactlyTRUE(env)
    /\ (~ExactlyTRUE(env) /\ pc # "gate") => (pc = "stopped" /\ page.gate)
    /\ ~ExactlyTRUE(env) => NothingAnalysed

\* C6 amended: the script goes past the warning if and only if the variable,
\* upper-cased, equals TRUE; for any other value, unset included, it shows
\* the warning and stops and nothing is analysed.
C6_AnyCaseGate ==
    /\ PastGate => AnyCaseTRUE(env)
    /\ (~AnyCaseTRUE(env) /\ pc # "gate") => (pc = "stopped" /\ page.gate)
    /\ ~AnyCaseTRUE(env) => NothingAnalysed
    /\ (AnyCaseTRUE(env) /\ pc # "gate") => (PastGate /\ ~page.gate)

C6_Witness ==
    /\ env = SetTo(<<"t", "R", "u", "E">>)
    /\ pc = "idle"
    /\ trigger = "click"
    /\ page.feedback # NoValue
    /\ page.sentiment # NoValue

EmotionCall == call.fn = "analyze_emotion_from_image"

\* C7: for every byte buffer analyze_emotion_from_image returns and never
\* raises; a buffer that decodes to no image gives (None, "Could not decode
\* image...") without a call of DeepFace, and an exception of the decoder or
\* of DeepFace gives (None, diagnostic message).
C7_EmotionNeverRaises ==
    (EmotionCall /\ call.image.k = "bytes") =>
        /\ call.out.raised = "none"
        /\ call.codec = NotDecoded =>
              /\ call.out.dominant = JNull
              /\ call.out.data = JStr(MsgNoDecode)
              /\ ~call.out.deepface
        /\ (call.codec = CodecRaises
              \/ (call.codec = Decoded /\ call.deepface.exc # "none")) =>
              /\ call.out.dominant = JNull
              /\ call.out.data = JStr(MsgEmotionError)

C7_Witness ==
    /\ EmotionCall
    /\ call.image = Buffer(<<0>>)
    /\ call.codec = NotDecoded
    /\ call.deepface = Returned(JList(<<Region("happy")>>))
    /\ call.out.data = JStr(MsgNoDecode)

\* C8: for every blank or whitespace-only text analyze_sentiment returns
\* polarity 0.0 and subjectivity 0.0 without using TextBlob; for every other
\* text it returns TextBlob's polarity and subjectivity unchanged.
C8_SentimentDefault ==
    call.fn = "analyze_sentiment" =>
        IF IsBlank(call.text)
        THEN call.out = SentimentOf(0, 0, FALSE)
        ELSE /\ call.out.polarity = call.blob.polarity
             /\ call.out.subjectivity = call.blob.subjectivity

C8_Witness ==
    /\ call.fn = "analyze_sentiment"
    /\ call.text = <<"\t", " ">>
    /\ call.blob = [polarity |-> 80, subjectivity |-> 60]
    /\ call.out = SentimentOf(0, 0, FALSE)

\* C9: whenever the user supplies a camera snapshot, analyze_emotion_from_image
\* is eventually invoked on it and its result rendered.
C9_SnapshotEventuallyAnalysed == pending ~> (page.emotion # NoValue)

====
